---- MODULE Spec2Model ----
(***************************************************************************)
(* RoomAI (Plan2Rendering): the App component's state machine              *)
(* (src/unnamed/part_000, the App.tsx of the repository) and the            *)
(* generation client generateImage (src/src/services/gemini.ts).            *)
(*                                                                         *)
(* JavaScript strings are sequences of tokens: a token is one character    *)
(* that the code looks at (" ", ":", ";", ",") or an opaque run of          *)
(* characters it never looks into ("data", "base64", "image/png", ...).    *)
(* null and undefined are two reserved one-token values.                   *)
(***************************************************************************)
EXTENDS Integers, Sequences, FiniteSets, TLC

\* ------------------------------------------------------------------ bounds
\* Largest number of iterations (created plus requested) in one behaviour.
MaxIterations == 2
\* Largest value of the millisecond clock read by Date.now().
MaxClock == 1
\* Largest number of generateImage calls outstanding at once when the handler
\* is invoked directly (SpecHandler); the rendered button allows only one.
MaxPending == 1

\* ------------------------------------------------------- JavaScript values
Null == <<"#null">>
Undefined == <<"#undefined">>

\* JS truthiness of a string-or-null-or-undefined value.
Truthy(v) == v # Null /\ v # Undefined /\ v # <<>>

\* a || b
OrElse(a, b) == IF Truthy(a) THEN a ELSE b

\* `${v}` : the text a template literal interpolates for v.
TemplateText(v) ==
  IF v = Undefined THEN <<"undefined">>
  ELSE IF v = Null THEN <<"null">>
  ELSE v

\* arr[k], k counted from 0: undefined past the end.
At(arr, k) == IF k + 1 <= Len(arr) THEN arr[k + 1] ELSE Undefined

RECURSIVE TrimStart(_)
TrimStart(s) == IF s # <<>> /\ Head(s) = " " THEN TrimStart(Tail(s)) ELSE s

RECURSIVE TrimEnd(_)
TrimEnd(s) ==
  IF s # <<>> /\ s[Len(s)] = " " THEN TrimEnd(SubSeq(s, 1, Len(s) - 1)) ELSE s

\* String.prototype.trim
trim(s) == TrimEnd(TrimStart(s))

\* String.prototype.split with a one-character separator.
RECURSIVE split(_, _)
split(s, sep) ==
  IF \E i \in 1..Len(s) : s[i] = sep
  THEN LET i == CHOOSE k \in 1..Len(s) :
                  s[k] = sep /\ \A j \in 1..(k - 1) : s[j] # sep
       IN <<SubSeq(s, 1, i - 1)>> \o split(SubSeq(s, i + 1, Len(s)), sep)
  ELSE <<s>>

Digits == <<"0", "1", "2", "3", "4", "5", "6", "7", "8", "9">>

\* Number.prototype.toString of a non-negative integer (decimal digits).
RECURSIVE toString(_)
toString(n) ==
  IF n < Len(Digits) THEN <<Digits[n + 1]>>
  ELSE toString(n \div Len(Digits)) \o <<Digits[(n % Len(Digits)) + 1]>>

\* data:<mime>;base64,<data>
DataUrl(mimeType, data) ==
  <<"data", ":">> \o TemplateText(mimeType) \o <<";", "base64", ",">>
    \o TemplateText(data)

\* ------------------------------------------------------------------ inputs
\* Values typed into the textarea or set by a quick-prompt button.
Prompts == { <<>>, <<" ">>, <<" ", "b">> }

\* Files the user may pick; NoFile is a change event with no file.
NoFile == [type |-> <<>>, data |-> <<>>, none |-> TRUE]
Files ==
  { [type |-> <<"image/png">>, data |-> <<"SRC1">>, none |-> FALSE],
    [type |-> <<"image/jpeg">>, data |-> <<"SRC2">>, none |-> FALSE] }

\* FileReader.readAsDataURL
readAsDataURL(file) == DataUrl(file.type, file.data)

InlinePart(mimeType, data) ==
  [inlineData |-> [mimeType |-> mimeType, data |-> data]]
TextPart(t) == [text |-> t]
Candidate(parts) == [content |-> [role |-> "model", parts |-> parts]]

\* Responses the external endpoint may resolve with.
Responses ==
  << [text |-> <<"blocked">>],                                      \* 1: candidates absent
     [candidates |-> <<>>],                                         \* 2: empty list
     [candidates |-> <<[finishReason |-> "SAFETY"]>>],              \* 3: candidate without content
     [candidates |-> <<[content |-> [role |-> "model"]]>>],         \* 4: content without parts
     [candidates |-> <<Candidate(<<>>)>>],                          \* 5: empty parts
     [candidates |-> <<Candidate(<<TextPart(<<"hi">>)>>)>>],        \* 6: text only
     [candidates |-> <<Candidate(<<TextPart(<<"hi">>),              \* 7: text, image, image
                                   InlinePart(<<"image/png">>, <<"GEN1">>),
                                   InlinePart(<<"image/jpeg">>, <<"GEN2">>)>>)>>],
     [candidates |-> <<Candidate(<<InlinePart(<<"image/jpeg">>, <<"GEN2">>),  \* 8: two candidates
                                   TextPart(<<"hi">>)>>),
                       Candidate(<<InlinePart(<<"image/png">>, <<"GEN1">>)>>)>>],
     [candidates |-> <<Candidate(<<TextPart(<<"hi">>)>>),           \* 9: image only in candidate 2
                       Candidate(<<InlinePart(<<"image/png">>, <<"GEN1">>)>>)>>] >>

\* Values the external call may reject with (err.message; undefined when the
\* rejection value carries no message).
TransportErrors ==
  { [name |-> "ApiError", message |-> <<"quota exceeded">>],
    [name |-> "Error", message |-> <<>>],
    [name |-> "Object", message |-> Undefined] }

\* ------------------------------------------------------- generation client
NoError == [name |-> "", message |-> <<>>]
TypeErrorSplit ==
  [name |-> "TypeError",
   message |-> <<"Cannot read properties of undefined (reading 'split')">>]
TypeErrorParts ==
  [name |-> "TypeError",
   message |-> <<"Cannot read properties of undefined (reading 'parts')">>]
NoCandidatesError == [name |-> "Error", message |-> <<"No candidates returned">>]
NoImageInResponseError ==
  [name |-> "Error", message |-> <<"No image found in the response">>]

\* Variant of RequestParts: the mime type is read from the wrong side of the
\* ';' of the prefix.
RequestPartsEncoding(p, baseImage) ==
  IF Truthy(baseImage)
  THEN LET halves == split(baseImage, ",")
           prefix == At(halves, 0)
           base64Data == At(halves, 1)
           scheme == At(split(prefix, ":"), 1)
       IN IF scheme = Undefined
          THEN [threw |-> TRUE, error |-> TypeErrorSplit, parts |-> <<>>]
          ELSE [threw |-> FALSE, error |-> NoError,
                parts |-> << [inlineData |->
                                [data |-> base64Data,
                                 mimeType |-> At(split(scheme, ";"), 1)]],
                             [text |-> p] >>]
  ELSE [threw |-> FALSE, error |-> NoError, parts |-> << [text |-> p] >>]


\* generateImage up to the call of ai.models.generateContent: the parts of the
\* request, or the exception thrown while building them.
RequestParts(p, baseImage) ==
  IF Truthy(baseImage)
  THEN LET halves == split(baseImage, ",")
           prefix == At(halves, 0)
           base64Data == At(halves, 1)
           scheme == At(split(prefix, ":"), 1)
       IN IF scheme = Undefined
          THEN [threw |-> TRUE, error |-> TypeErrorSplit, parts |-> <<>>]
          ELSE [threw |-> FALSE, error |-> NoError,
                parts |-> << [inlineData |->
                                [data |-> base64Data,
                                 mimeType |-> At(split(scheme, ";"), 0)]],
                             [text |-> p] >>]
  ELSE [threw |-> FALSE, error |-> NoError, parts |-> << [text |-> p] >>]

Returned(v) == [ok |-> TRUE, value |-> v, error |-> NoError]
Thrown(e) == [ok |-> FALSE, value |-> Undefined, error |-> e]

\* Variant of FirstInline: the loop keeps going and the last image wins.
RECURSIVE LastInline(_)
LastInline(parts) ==
  IF parts = <<>> THEN Thrown(NoImageInResponseError)
  ELSE IF "inlineData" \in DOMAIN parts[Len(parts)]
       THEN Returned(DataUrl(parts[Len(parts)].inlineData.mimeType,
                             parts[Len(parts)].inlineData.data))
       ELSE LastInline(SubSeq(parts, 1, Len(parts) - 1))

\* Variant of FirstInline: the function ends without the final throw and
\* returns undefined when no part has inlineData.
FirstInlineOrUndefined(parts) ==
  LET idx == {k \in 1..Len(parts) : "inlineData" \in DOMAIN parts[k]}
      k == CHOOSE k \in idx : \A j \in idx : k <= j
  IN IF idx = {}
     THEN Returned(Undefined)
     ELSE Returned(DataUrl(parts[k].inlineData.mimeType,
                           parts[k].inlineData.data))

\* The first part of `parts` that has inlineData, as the loop finds it.
RECURSIVE FirstInline(_)
FirstInline(parts) ==
  IF parts = <<>> THEN Thrown(NoImageInResponseError)
  ELSE IF "inlineData" \in DOMAIN Head(parts)
       THEN Returned(DataUrl(Head(parts).inlineData.mimeType,
                             Head(parts).inlineData.data))
       ELSE FirstInline(Tail(parts))

\* generateImage after the response arrived: the value it returns or throws.
ExtractImage(response) ==
  IF "candidates" \notin DOMAIN response \/ Len(response.candidates) = 0
  THEN Thrown(NoCandidatesError)
  ELSE LET first == response.candidates[1]
       IN IF "content" \notin DOMAIN first
          THEN Thrown(TypeErrorParts)
          ELSE FirstInline(IF "parts" \in DOMAIN first.content
                           THEN first.content.parts
                           ELSE <<>>)

\* --------------------------------------------------------------- App state
VARIABLES
  sourceImage,   \* useState<string | null>(null)
  iterations,    \* useState<DesignIteration[]>([])
  activeId,      \* useState<string | null>(null)
  prompt,        \* useState('')
  isGenerating,  \* useState(false)
  error,         \* useState<string | null>(null)
  pending,       \* handleGenerate calls suspended at `await generateImage(...)`:
                 \* the values their closure captured and the request they sent
  now,           \* the clock Date.now() reads
  last           \* history: what the last step ran (handler, settled call)

vars ==
  <<sourceImage, iterations, activeId, prompt, isGenerating, error, pending,
    now, last>>

Source == <<"source">>
PleaseEnterPrompt == <<"Please enter a prompt.">>
FailedToGenerate == <<"Failed to generate image.">>

NoOutcome == [ok |-> FALSE, value |-> Undefined, error |-> NoError]

\* The history record of a step: which named handler of App ran in it
\* and on which branch ("upload", with the data URL the FileReader produced as outcome;
\* "clearSourceReselect" when the selection was
\* on the source, else "clearSource"; "generateInvalid", "generateStart";
\* "none" for the inline setters and the clock), or how a generateImage call settled in it
\* ("resolved": the endpoint answered, "rejected": the call failed, "threw":
\* the request could not be built), with the position in Responses of the
\* response read (0 if none was) and what generateImage returned or threw.
Event(ev, response, outcome) ==
  [ev |-> ev, response |-> response, outcome |-> outcome]
Handled(ev) == Event(ev, 0, NoOutcome)
NoCall == Handled("none")

\* iterations.find(i => i.id === id): the position of the first match, 0 if none.
find(its, id) ==
  IF \E k \in 1..Len(its) : its[k].id = id
  THEN CHOOSE k \in 1..Len(its) :
         its[k].id = id /\ \A j \in 1..(k - 1) : its[j].id # id
  ELSE 0

\* Variant of ResolveActive: the operands of || swapped, the source first.
ResolveActiveSourceFirst(src, its, act) ==
  IF act = Source THEN src
  ELSE OrElse(src,
              IF find(its, act) # 0 THEN its[find(its, act)].imageUrl
              ELSE Undefined)

\* Variant of ResolveActive: without the `|| sourceImage` fallback.
ResolveActiveNoFallback(src, its, act) ==
  IF act = Source THEN src
  ELSE IF find(its, act) # 0 THEN its[find(its, act)].imageUrl
       ELSE Undefined

\* The image shown on the canvas.
ResolveActive(src, its, act) ==
  IF act = Source THEN src
  ELSE OrElse(IF find(its, act) # 0 THEN its[find(its, act)].imageUrl
              ELSE Undefined,
              src)
activeImageUrl == ResolveActive(sourceImage, iterations, activeId)

\* Variant of generateDisabled: the button ignores the generating flag.
generateDisabledByPromptOnly == ~Truthy(trim(prompt))

\* The `disabled` attribute of the generate button.
generateDisabled == isGenerating \/ ~Truthy(trim(prompt))

Init ==
  /\ sourceImage = Null
  /\ iterations = <<>>
  /\ activeId = Null
  /\ prompt = <<>>
  /\ isGenerating = FALSE
  /\ error = Null
  /\ pending = <<>>
  /\ now = 0
  /\ last = NoCall

\* ------------------------------------------------------------------ events
\* Variant of handleImageUpload: the selection is left where it was.
handleImageUploadKeepSelection(file) ==
  /\ IF file.none
     THEN /\ last' = NoCall
          /\ UNCHANGED <<sourceImage, activeId>>
     ELSE /\ sourceImage' = readAsDataURL(file)
          /\ last' = Event("upload", 0, Returned(readAsDataURL(file)))
          /\ UNCHANGED activeId
  /\ UNCHANGED <<iterations, prompt, isGenerating, error, pending, now>>

\* <input type="file" onChange>: the FileReader reads the file and its onload
\* callback stores the result; the handler itself changes no App state.
handleImageUpload(file) ==
  /\ IF file.none
     THEN /\ last' = NoCall
          /\ UNCHANGED <<sourceImage, activeId>>
     ELSE /\ sourceImage' = readAsDataURL(file)
          /\ activeId' = Source
          /\ last' = Event("upload", 0, Returned(readAsDataURL(file)))
  /\ UNCHANGED <<iterations, prompt, isGenerating, error, pending, now>>

\* Variant of Reselect: the selection is left where it was.
ReselectKeep(act, its) == act

\* Variant of Reselect: the oldest iteration instead of the newest.
ReselectOldest(act, its) ==
  IF act = Source
  THEN (IF Len(its) > 0 THEN its[Len(its)].id ELSE Null)
  ELSE act

\* Variant of Reselect: the newest iteration whatever was selected.
ReselectAlways(act, its) == IF Len(its) > 0 THEN its[1].id ELSE Null

\* The selection clearSourceImage leaves: away from "source" if it was there.
Reselect(act, its) ==
  IF act = Source
  THEN (IF Len(its) > 0 THEN its[1].id ELSE Null)
  ELSE act

\* The Clear button, rendered only while sourceImage is set.
clearSourceImage ==
  /\ Truthy(sourceImage)
  /\ sourceImage' = Null
  /\ activeId' = Reselect(activeId, iterations)
  /\ last' = Handled(IF activeId = Source THEN "clearSourceReselect"
                                            ELSE "clearSource")
  /\ UNCHANGED <<iterations, prompt, isGenerating, error, pending, now>>

\* Variant of selectSource: the tile is there without a source image too.
selectSourceAlways ==
  /\ activeId' = Source
  /\ last' = NoCall
  /\ UNCHANGED <<sourceImage, iterations, prompt, isGenerating, error, pending, now>>

\* The source tile (sidebar, or history strip when iterations exist).
selectSource ==
  /\ Truthy(sourceImage)
  /\ activeId' = Source
  /\ last' = NoCall
  /\ UNCHANGED <<sourceImage, iterations, prompt, isGenerating, error, pending, now>>

\* Variant of selectIteration: the map index idx used as the id.
selectIterationByIndex(k) ==
  /\ activeId' = toString(k - 1)
  /\ last' = NoCall
  /\ UNCHANGED <<sourceImage, iterations, prompt, isGenerating, error, pending, now>>

\* A thumbnail of the history strip.
selectIteration(k) ==
  /\ activeId' = iterations[k].id
  /\ last' = NoCall
  /\ UNCHANGED <<sourceImage, iterations, prompt, isGenerating, error, pending, now>>

\* The textarea's onChange, or a quick-prompt button.
setPrompt(p) ==
  /\ prompt' = p
  /\ last' = NoCall
  /\ UNCHANGED <<sourceImage, iterations, activeId, isGenerating, error, pending, now>>

\* The base image handleGenerate passes to generateImage.
BaseImage ==
  IF activeId = Source /\ Truthy(sourceImage) THEN sourceImage
  ELSE IF Truthy(activeId)
       THEN (IF find(iterations, activeId) # 0
             THEN iterations[find(iterations, activeId)].imageUrl
             ELSE Undefined)
       ELSE IF Truthy(sourceImage) THEN sourceImage ELSE Undefined

\* Variant of ErrorText: the fixed text whatever was caught.
ErrorTextFixed(err) == FailedToGenerate

\* What the catch block shows for a caught value.
ErrorText(err) == OrElse(err.message, FailedToGenerate)

\* Variant of IsBlank: the prompt tested without trim.
IsBlankUntrimmed(p) == ~Truthy(p)

\* !prompt.trim()
IsBlank(p) == ~Truthy(trim(p))

\* Variant of Finally: the flag is cleared after the try block only, a
\* failed generation leaves it set.
FinallyOnSuccess(out) == ~out.ok

\* finally { setIsGenerating(false) }: the value of the generating flag after
\* the try block (out.ok) and after the catch block alike.
Finally(out) == FALSE

\* handleGenerate up to `await generateImage(...)`: the validation, and the
\* synchronous part of generateImage (a throw there is caught at once). A
\* request is sent only while fewer than MaxIterations iterations exist or
\* are requested, which bounds the list.
handleGenerate ==
  IF IsBlank(prompt)
  THEN /\ error' = PleaseEnterPrompt
       /\ last' = Handled("generateInvalid")
       /\ UNCHANGED <<sourceImage, iterations, activeId, prompt, isGenerating,
                      pending, now>>
  ELSE LET req == RequestParts(prompt, BaseImage)
           closure == [prompt |-> prompt, activeId |-> activeId,
                       parts |-> req.parts]
       IN /\ Len(iterations) + Len(pending) < MaxIterations
          /\ IF req.threw
             THEN /\ isGenerating' = Finally(Thrown(req.error))
                  /\ error' = ErrorText(req.error)
                  /\ last' = Event("threw", 0, Thrown(req.error))
                  /\ UNCHANGED pending
             ELSE /\ isGenerating' = TRUE
                  /\ error' = Null
                  /\ pending' = Append(pending, closure)
                  /\ last' = Handled("generateStart")
          /\ UNCHANGED <<sourceImage, iterations, activeId, prompt, now>>

\* A click on the generate button: the browser delivers it only while the
\* button is not disabled.
ClickGenerate ==
  /\ ~generateDisabled
  /\ handleGenerate

Remove(seq, i) == SubSeq(seq, 1, i - 1) \o SubSeq(seq, i + 1, Len(seq))

\* Variant of NewIteration: the prompt and the selection are read when the
\* iteration is created, not taken from the call that started it.
NewIterationCurrent(c, imageUrl) ==
  [id |-> toString(now),
   imageUrl |-> imageUrl,
   prompt |-> prompt,
   timestamp |-> now,
   parentId |-> OrElse(activeId, Undefined)]


\* The iteration built from the closure c and the returned image. Both
\* Date.now() readings are taken in the same millisecond.
NewIteration(c, imageUrl) ==
  [id |-> toString(now),
   imageUrl |-> imageUrl,
   prompt |-> c.prompt,
   timestamp |-> now,
   parentId |-> OrElse(c.activeId, Undefined)]

\* Variant of Prepend: the new iteration put last, [...prev, newIteration].
PrependAtEnd(newIteration, prev) == Append(prev, newIteration)

\* setIterations(prev => [newIteration, ...prev])
Prepend(newIteration, prev) == <<newIteration>> \o prev


\* The rest of handleGenerate once generateImage settled with `out`.
Settle(i, ev, response, out) ==
  LET c == pending[i]
      newIteration == NewIteration(c, out.value)
  IN /\ pending' = Remove(pending, i)
     /\ isGenerating' = Finally(out)
     /\ last' = Event(ev, response, out)
     /\ IF out.ok
        THEN /\ iterations' = Prepend(newIteration, iterations)
             /\ activeId' = newIteration.id
             /\ UNCHANGED error
        ELSE /\ error' = ErrorText(out.error)
             /\ UNCHANGED <<iterations, activeId>>
     /\ UNCHANGED <<sourceImage, prompt, now>>

\* ai.models.generateContent resolves: generateImage reads the response.
apiResolves ==
  \E i \in 1..Len(pending), r \in 1..Len(Responses) :
    Settle(i, "resolved", r, ExtractImage(Responses[r]))

\* ai.models.generateContent rejects: generateImage lets the error through.
apiRejects ==
  \E i \in 1..Len(pending), e \in TransportErrors :
    Settle(i, "rejected", 0, Thrown(e))

\* Time passes: Date.now() reads a clock that never goes back and need not
\* have advanced between two readings.
Tick ==
  /\ now < MaxClock
  /\ now' = now + 1
  /\ last' = NoCall
  /\ UNCHANGED <<sourceImage, iterations, activeId, prompt, isGenerating, error,
                 pending>>

UserEvent ==
  \/ \E file \in Files \cup {NoFile} : handleImageUpload(file)
  \/ clearSourceImage
  \/ selectSource
  \/ \E k \in 1..Len(iterations) : selectIteration(k)
  \/ \E p \in Prompts : setPrompt(p)

Next ==
  \/ UserEvent
  \/ ClickGenerate
  \/ apiResolves
  \/ apiRejects
  \/ Tick

Spec == Init /\ [][Next]_vars

\* The rendered UI with an external call that is eventually answered: every
\* outstanding generateContent promise eventually resolves or rejects.
SpecAnswered == Spec /\ WF_vars(apiResolves \/ apiRejects)

\* The handler called whatever the button's disabled attribute says.
InvokeHandleGenerate ==
  /\ Truthy(trim(prompt)) => Len(pending) < MaxPending
  /\ handleGenerate

NextHandler ==
  \/ Next
  \/ InvokeHandleGenerate

SpecHandler == Init /\ [][NextHandler]_vars

\* --------------------------------------------- the canvas expression alone
\* The values the three cells read by `activeImageUrl` can hold by their
\* types: any string or null for the selection, any list of iterations.
\* The last of SelectableIds is the id of no iteration of the lists below.
SelectableIds == {toString(t) : t \in 0..(MaxClock + 1)}
DesignIterations ==
  [id : {toString(t) : t \in 0..MaxClock},
   imageUrl : {DataUrl(<<"image/png">>, <<"GEN1">>),
               DataUrl(<<"image/jpeg">>, <<"GEN2">>)},
   prompt : {<<" ", "b">>},
   timestamp : {0},
   parentId : {Undefined}]

InitRender ==
  /\ sourceImage \in {Null} \cup {readAsDataURL(f) : f \in Files}
  /\ iterations \in UNION {[1..n -> DesignIterations] : n \in 0..MaxIterations}
  /\ activeId \in {Null, Source} \cup SelectableIds
  /\ prompt = <<>>
  /\ isGenerating = FALSE
  /\ error = Null
  /\ pending = <<>>
  /\ now = 0
  /\ last = NoCall

\* One evaluation of `activeImageUrl` while App renders.
render ==
  /\ last' = Event("render", 0, Returned(activeImageUrl))
  /\ UNCHANGED <<sourceImage, iterations, activeId, prompt, isGenerating,
                 error, pending, now>>

SpecRender == InitRender /\ [][render]_vars

\* ================================================================== claims
\* A generateImage call resolved with an image in the step into this state.
Generated == last.ev = "resolved" /\ last.outcome.ok

\* C1: each successful generation makes the iteration list exactly one element
\* longer, with the new iteration (the returned image, the id read from the
\* clock) at index 0 and the previous list unchanged as the tail; no other
\* step changes the iteration list.
IterationsGrowAtFront ==
  [][ IF Generated'
      THEN /\ Len(iterations') = Len(iterations) + 1
           /\ iterations'[1].imageUrl = last'.outcome.value
           /\ iterations'[1].id = toString(now)
           /\ Tail(iterations') = iterations
      ELSE iterations' = iterations ]_vars

\* Two generations succeeded, the second with another image than the first.
IterationsGrowAtFrontWitness ==
  /\ Generated
  /\ Len(iterations) = 2
  /\ iterations[1].imageUrl # iterations[2].imageUrl

\* C2: right after a successful generation ActiveSelection is the id of the
\* new iteration and the image shown is the image generateImage returned,
\* whatever happened to the source and the selection during the request.
ActiveIsNewIteration ==
  Generated =>
    /\ activeId = iterations[1].id
    /\ activeImageUrl = last.outcome.value

\* The request was made from the source, the source was cleared while the
\* request was outstanding, and the generation succeeded as the second one.
ActiveIsNewIterationWitness ==
  /\ Generated
  /\ iterations[1].parentId = Source
  /\ sourceImage = Null
  /\ Len(iterations) = 2
  /\ activeImageUrl = iterations[1].imageUrl
  /\ activeImageUrl # iterations[2].imageUrl

\* C3: ActiveSelection is empty, or "source", or the id of an iteration of
\* the list.
ActiveIdValid ==
  \/ activeId = Null
  \/ activeId = Source
  \/ \E k \in 1..Len(iterations) : iterations[k].id = activeId

\* The older of two iterations is selected.
ActiveIdValidWitness ==
  /\ Len(iterations) = 2
  /\ activeId = iterations[2].id
  /\ activeId # iterations[1].id

\* C4: the parentId of an iteration, if present, names a node that exists at
\* the moment the iteration is created: "source" with a source image present,
\* or the id of an iteration already in the list.
ParentExistsAtCreation ==
  [][ Generated' =>
        LET parentId == iterations'[1].parentId
        IN \/ parentId = Undefined
           \/ parentId = Source /\ Truthy(sourceImage)
           \/ \E k \in 1..Len(iterations) : iterations[k].id = parentId ]_vars

\* The step is a call of clearSourceImage.
ClearSourceStep == last'.ev \in {"clearSource", "clearSourceReselect"}

\* C5: clearSource with ActiveSelection "source" and no iterations leaves
\* ActiveSelection empty, SourceImage empty and nothing to show.
ClearSourceWithoutIterations ==
  [][ (ClearSourceStep /\ activeId = Source /\ Len(iterations) = 0) =>
        /\ activeId' = Null
        /\ sourceImage' = Null
        /\ ~Truthy(ResolveActive(sourceImage', iterations', activeId')) ]_vars

\* The source was cleared while it was selected and nothing had been generated.
ClearSourceWithoutIterationsWitness ==
  /\ last.ev = "clearSourceReselect"
  /\ activeId = Null
  /\ Len(iterations) = 0

\* C6: clearSource with ActiveSelection "source" and at least one iteration
\* selects the head of the list, the most recently added iteration, and its
\* image is the one shown.
ClearSourceSelectsNewest ==
  [][ (ClearSourceStep /\ activeId = Source /\ Len(iterations) > 0) =>
        /\ activeId' = iterations[1].id
        /\ ResolveActive(sourceImage', iterations', activeId')
             = iterations[1].imageUrl ]_vars

\* The source was cleared while it was selected, with two different
\* iterations in the list, and the newer one is now selected.
ClearSourceSelectsNewestWitness ==
  /\ last.ev = "clearSourceReselect"
  /\ Len(iterations) = 2
  /\ iterations[1].id # iterations[2].id
  /\ iterations[1].imageUrl # iterations[2].imageUrl
  /\ activeId = iterations[1].id

\* Every character of p is white space (p may be empty).
WhitespaceOnly(p) == \A k \in 1..Len(p) : p[k] = " "

\* The step is a call of handleGenerate.
GenerateAttempt == last'.ev \in {"generateInvalid", "generateStart", "threw"}

\* C7: a call of handleGenerate with an empty or whitespace-only prompt sends
\* no request, sets the validation message and leaves SourceImage, the
\* iteration list, ActiveSelection and the generating flag as they were.
BlankPromptRejected ==
  [][ (GenerateAttempt /\ WhitespaceOnly(prompt)) =>
        /\ last'.ev = "generateInvalid"
        /\ pending' = pending
        /\ error' = PleaseEnterPrompt
        /\ sourceImage' = sourceImage
        /\ iterations' = iterations
        /\ activeId' = activeId
        /\ isGenerating' = isGenerating ]_vars

\* handleGenerate ran with a prompt of one space while a request was
\* outstanding.
BlankPromptRejectedWitness ==
  /\ last.ev = "generateInvalid"
  /\ prompt = <<" ">>
  /\ isGenerating
  /\ Len(pending) = 1
  /\ error = PleaseEnterPrompt

\* The response read in the step into this state.
LastResponse == Responses[last.response]

\* The response has no candidates: the list is absent or empty.
NoCandidates(response) ==
  "candidates" \notin DOMAIN response \/ response.candidates = <<>>

\* The parts of the first candidate of a response that has one: none when the
\* candidate has no content or the content no parts.
FirstCandidateParts(response) ==
  LET first == response.candidates[1]
  IN IF "content" \in DOMAIN first /\ "parts" \in DOMAIN first.content
     THEN first.content.parts
     ELSE <<>>

InlineIndexes(parts) == {k \in 1..Len(parts) : "inlineData" \in DOMAIN parts[k]}

\* C8: generateImage fails with NoCandidatesError on a response without
\* candidates, with NoImageInResponseError when the first candidate has no
\* inline-image part, and neither error is the other or a transport failure.
ResponseErrorsDistinct ==
  /\ NoCandidatesError # NoImageInResponseError
  /\ {NoCandidatesError, NoImageInResponseError} \cap TransportErrors = {}
  /\ last.ev = "resolved" =>
       /\ NoCandidates(LastResponse) =>
            last.outcome = Thrown(NoCandidatesError)
       /\ (~NoCandidates(LastResponse)
             /\ InlineIndexes(FirstCandidateParts(LastResponse)) = {}) =>
            last.outcome = Thrown(NoImageInResponseError)

\* C9: when the first candidate has an inline-image part, generateImage
\* returns data:<mime>;base64,<data> of the first such part; an image in a
\* later part or in a later candidate is not used.
FirstImageOfFirstCandidate ==
  (last.ev = "resolved" /\ ~NoCandidates(LastResponse)) =>
    LET parts == FirstCandidateParts(LastResponse)
        inline == InlineIndexes(parts)
    IN IF inline = {}
       THEN ~last.outcome.ok
       ELSE LET k == CHOOSE i \in inline : \A j \in inline : i <= j
            IN /\ last.outcome.ok
               /\ last.outcome.value =
                    <<"data", ":">> \o parts[k].inlineData.mimeType
                      \o <<";", "base64", ",">> \o parts[k].inlineData.data

\* The response read had a text part, then two different images.
FirstImageOfFirstCandidateWitness ==
  /\ Generated
  /\ Len(FirstCandidateParts(LastResponse)) > 2
  /\ Cardinality(InlineIndexes(FirstCandidateParts(LastResponse))) = 2
  /\ iterations[1].imageUrl = DataUrl(<<"image/png">>, <<"GEN1">>)

\* C10 as claimed: when the external call fails, the caller shows the
\* underlying message as the error string.
TransportMessageShown ==
  last.ev = "rejected" =>
    /\ last.outcome.error \in TransportErrors
    /\ error = last.outcome.error.message

\* C10: when the external call fails, generateImage fails with the underlying
\* error, and the caller shows its message as the error string, or "Failed to
\* generate image." when the error has no message or an empty one.
TransportMessageShownOrFallback ==
  last.ev = "rejected" =>
    /\ ~last.outcome.ok
    /\ last.outcome.error \in TransportErrors
    /\ error = IF last.outcome.error.message \in {Undefined, <<>>}
               THEN <<"Failed to generate image.">>
               ELSE last.outcome.error.message

\* The external call failed with a message, which is shown.
TransportMessageShownOrFallbackWitness ==
  /\ last.ev = "rejected"
  /\ error = <<"quota exceeded">>
  /\ ~isGenerating

\* C11: at most one generation request is outstanding, and while one is the
\* generating flag is set and the generate button is disabled.
AtMostOneRequest ==
  /\ Len(pending) <= 1
  /\ pending # <<>> => (isGenerating /\ generateDisabled)

\* A request is outstanding while the prompt alone would enable the button.
AtMostOneRequestWitness ==
  /\ Len(pending) = 1
  /\ Truthy(trim(prompt))
  /\ Len(iterations) + Len(pending) < MaxIterations

\* A step in which the continuation of handleGenerate ran after the await.
SettleStep == last'.ev \in {"resolved", "rejected"}

\* C12: given that the external call is eventually answered, a set
\* generating flag is eventually cleared, leaving no request outstanding, and
\* every continuation of handleGenerate, successful or failed, clears it.
GeneratingEventuallyCleared ==
  /\ isGenerating ~> (~isGenerating /\ pending = <<>>)
  /\ [][SettleStep => ~isGenerating']_vars

\* A failed generation has just cleared the flag and the button is enabled.
GeneratingEventuallyClearedWitness ==
  /\ last.ev \in {"resolved", "rejected"}
  /\ ~last.outcome.ok
  /\ ~isGenerating
  /\ ~generateDisabled

\* The step settles a generation that failed: the call was rejected, or the
\* response has no candidates or no inline image in its first candidate.
FailedGeneration ==
  \/ last'.ev = "rejected"
  \/ /\ last'.ev = "resolved"
     /\ LET response == Responses[last'.response]
        IN \/ NoCandidates(response)
           \/ InlineIndexes(FirstCandidateParts(response)) = {}

\* C13: a failed generation leaves the iteration list, the active selection,
\* the source image and the prompt as they were; it sets an error message and
\* clears the generating flag.
FailedGenerationFrame ==
  [][FailedGeneration =>
       /\ iterations' = iterations
       /\ activeId' = activeId
       /\ sourceImage' = sourceImage
       /\ prompt' = prompt
       /\ Truthy(error')
       /\ ~isGenerating']_vars

\* A response without an image arrived while an iteration was selected and a
\* source image was present.
FailedGenerationFrameWitness ==
  /\ last.ev = "resolved"
  /\ ~last.outcome.ok
  /\ ~NoCandidates(LastResponse)
  /\ InlineIndexes(FirstCandidateParts(LastResponse)) = {}
  /\ Len(iterations) = 1
  /\ activeId = iterations[1].id
  /\ Truthy(sourceImage)

\* C14: the request generateImage sends holds one text part with the prompt,
\* last, preceded by one inline-image part exactly when a base image was
\* passed; that part's mime type and payload are those of the base image,
\* which is the data URL made of them.
RequestPartsInOrder ==
  [][last'.ev = "generateStart" =>
       LET parts == pending'[Len(pending')].parts
           n == Len(parts)
       IN /\ n = (IF Truthy(BaseImage) THEN 2 ELSE 1)
          /\ parts[n] = [text |-> prompt]
          /\ n = 2 =>
               /\ DOMAIN parts[1] = {"inlineData"}
               /\ DataUrl(parts[1].inlineData.mimeType,
                          parts[1].inlineData.data) = BaseImage]_vars

\* A request was just sent whose base image is a generated JPEG.
RequestPartsInOrderWitness ==
  /\ last.ev = "generateStart"
  /\ Len(pending) = 1
  /\ Len(pending[1].parts) = 2
  /\ pending[1].parts[1].inlineData.mimeType = <<"image/jpeg">>
  /\ pending[1].activeId # Source
  /\ pending[1].parts[2].text = <<" ", "b">>

\* C15: no two iterations of the list have the same id, and no iteration has
\* the id "source".
IterationIdsUnique ==
  \A j, k \in 1..Len(iterations) :
    /\ iterations[j].id # Source
    /\ j # k => iterations[j].id # iterations[k].id

\* C16: the image on the canvas is the source image when the selection is
\* "source"; the image of an iteration with the selected id when the list
\* has one; the source image when the list has none with that id; and the
\* source image, which may be absent, when the selection is empty.
ActiveImageResolved ==
  last.ev = "render" =>
    LET shown == last.outcome.value
        selected == {k \in 1..Len(iterations) : iterations[k].id = activeId}
    IN /\ activeId = Source => shown = sourceImage
       /\ selected # {} => \E k \in selected : shown = iterations[k].imageUrl
       /\ (activeId \notin {Source, Null} /\ selected = {}) =>
            shown = sourceImage
       /\ activeId = Null => shown = sourceImage

\* The selection names an iteration that is not in the list while other
\* iterations and a source image exist.
ActiveImageResolvedWitness ==
  /\ last.ev = "render"
  /\ activeId \notin {Source, Null}
  /\ \A k \in 1..Len(iterations) : iterations[k].id # activeId
  /\ Len(iterations) = 2
  /\ Truthy(sourceImage)
  /\ last.outcome.value = sourceImage

\* C17: a completed upload makes the uploaded image the source image and
\* "source" the selection, and leaves the iteration list, the prompt, the
\* error, the generating flag and any outstanding request as they were.
UploadFrame ==
  [][last'.ev = "upload" =>
       /\ sourceImage' = last'.outcome.value
       /\ Truthy(sourceImage')
       /\ activeId' = Source
       /\ iterations' = iterations
       /\ <<prompt', error', isGenerating', pending'>> =
            <<prompt, error, isGenerating, pending>>]_vars

\* An upload completed while a request was outstanding that had sent another
\* source image, an iteration existing already.
UploadFrameWitness ==
  /\ last.ev = "upload"
  /\ isGenerating
  /\ Len(pending) = 1
  /\ pending[1].activeId = Source
  /\ Len(pending[1].parts) = 2
  /\ DataUrl(pending[1].parts[1].inlineData.mimeType,
             pending[1].parts[1].inlineData.data) # sourceImage
  /\ Len(iterations) = 1

\* C18: clearSourceImage removes the source image and leaves the iteration
\* list as it was; a selection that is not "source" stays as it was, and so
\* do the prompt, the error, the generating flag and any outstanding request.
ClearSourceFrame ==
  [][ClearSourceStep =>
       /\ sourceImage' = Null
       /\ iterations' = iterations
       /\ activeId # Source => activeId' = activeId
       /\ <<prompt', error', isGenerating', pending'>> =
            <<prompt, error, isGenerating, pending>>]_vars

\* The source was cleared while the older of two different iterations was
\* selected.
ClearSourceFrameWitness ==
  /\ last.ev = "clearSource"
  /\ Len(iterations) = 2
  /\ iterations[1].id # iterations[2].id
  /\ activeId = iterations[2].id
  /\ sourceImage = Null

\* C19: the selection is "source" only while a source image is present, and
\* is empty only while there is neither a source image nor an iteration; so
\* handleGenerate, reached with an empty selection, finds no source image to
\* send.
SelectionInvariant ==
  /\ activeId = Source => Truthy(sourceImage)
  /\ activeId = Null => (sourceImage = Null /\ iterations = <<>>)
  /\ ~Truthy(activeId) => BaseImage = Undefined

\* A request was sent with an empty selection: it carries no image.
SelectionInvariantWitness ==
  /\ last.ev = "generateStart"
  /\ activeId = Null
  /\ Len(pending) = 1
  /\ Len(pending[1].parts) = 1

\* C20: a request carries the prompt and the image of the node selected when
\* it is sent (the source image for "source", the image of an iteration with
\* the selected id, no image for an empty selection), and the iteration made
\* from its answer records that prompt and names that node as parent (no
\* parent for an empty selection), whatever the prompt, the selection and the
\* source image have become meanwhile.
IterationRecordsRequest ==
  [][/\ last'.ev = "generateStart" =>
          LET c == pending'[Len(pending')]
              n == Len(c.parts)
              sent == DataUrl(c.parts[1].inlineData.mimeType,
                              c.parts[1].inlineData.data)
          IN /\ c.prompt = prompt
             /\ c.parts[n].text = prompt
             /\ c.activeId = activeId
             /\ n = 1 => c.activeId = Null
             /\ n = 2 =>
                  \/ c.activeId = Source /\ sent = sourceImage
                  \/ \E k \in 1..Len(iterations) :
                       /\ iterations[k].id = c.activeId
                       /\ iterations[k].imageUrl = sent
     /\ Generated' =>
          \E i \in 1..Len(pending) :
            /\ pending' = Remove(pending, i)
            /\ iterations'[1].prompt = pending[i].parts[Len(pending[i].parts)].text
            /\ iterations'[1].parentId =
                 (IF Len(pending[i].parts) = 1 THEN Undefined
                  ELSE pending[i].activeId)]_vars

\* An iteration was made from another one after the prompt was emptied while
\* the request was outstanding.
IterationRecordsRequestWitness ==
  /\ Generated
  /\ Len(iterations) = 2
  /\ iterations[1].parentId = iterations[2].id
  /\ iterations[1].id # iterations[2].id
  /\ iterations[1].prompt # prompt
====
